---- MODULE Spec2Model ----
(***************************************************************************)
(* R-vine structure matrices of vinecopulib (src/src/rvine_matrix.cpp).    *)
(*                                                                         *)
(* A MatXi with d rows and d columns is a function on Cells(d), indexed    *)
(* <<row, col>> from 0 as in the source; a VecXi of size n is a function   *)
(* on 0..n-1.  A caller builds a D-vine matrix from an order, possibly     *)
(* overwrites some of its cells, hands it to the RVineMatrix constructor   *)
(* and then calls the accessors in any order.                              *)
(***************************************************************************)
EXTENDS Integers, FiniteSets, Sequences, TLC

VARIABLES
    order,      \* the caller's VecXi handed to construct_d_vine_matrix
    patch,      \* cells the caller overwrites before constructing: cell -> value
    input,      \* the MatXi handed to the RVineMatrix constructor
    d_,         \* RVineMatrix::d_
    matrix_,    \* RVineMatrix::matrix_
    pc,         \* "start" -> "built" (D-vine matrix made) -> "live" (object made)
    ret,        \* the last call: [op, val, acc]
    first       \* history: accessor -> value of its first call (tracked accessors)

vars == <<order, patch, input, d_, matrix_, pc, ret, first>>

\* Largest dimension d of the matrices the caller builds.
MaxD == 3
\* Largest number of cells the caller overwrites in a D-vine matrix.
MaxEdits == 1

Accessors == {"get_matrix", "get_order", "in_natural_order", "get_max_matrix",
              "get_needed_hfunc1", "get_needed_hfunc2"}

----------------------------------------------------------------------------
(* Eigen containers and the expressions the source uses on them.           *)

Idx(n) == 0 .. (n - 1)
Cells(d) == Idx(d) \X Idx(d)
Rows(m) == Cardinality({c \in DOMAIN m : c[2] = 0})
Size(v) == Cardinality(DOMAIN v)

\* MatXi::Constant(d, d, v), MatXb::Constant(d, d, v), MatXi::Zero(d, d)
Constant(d, v) == [c \in Cells(d) |-> v]

\* m(r, c).  The source never reads outside the matrix (InRange below is
\* checked for every access); the value there is fixed only to keep the
\* expression total.
Coeff(m, r, c) == IF <<r, c>> \in DOMAIN m THEN m[<<r, c>>] ELSE 0

\* m.colwise().reverse(): every column upside down
ColwiseReverse(m) ==
    LET d == Rows(m) IN [c \in DOMAIN m |-> m[<<d - 1 - c[1], c[2]>>]]

\* m.diagonal()
Diagonal(m) == [k \in Idx(Rows(m)) |-> m[<<k, k>>]]

\* v.reverse()
Reverse(v) == LET n == Size(v) IN [k \in DOMAIN v |-> v[n - 1 - k]]

\* the cells of m.block(r, c, nr, nc)
BlockCells(r, c, nr, nc) ==
    {<<r + a, c + b>> : a \in Idx(nr), b \in Idx(nc)}

\* m.block(r, c, nr, nc).maxCoeff()
MaxCoeff(m, r, c, nr, nc) ==
    LET vals == {Coeff(m, x[1], x[2]) : x \in BlockCells(r, c, nr, nc)}
    IN  CHOOSE v \in vals : \A w \in vals : w <= v

\* An access recorded as the block <<startRow, startCol, rows, cols>>; a single
\* cell m(r, c) is the block <<r, c, 1, 1>>.  Eigen's precondition on a block
\* of a matrix with d rows and d columns:
InRange(b, d) ==
    /\ b[1] >= 0 /\ b[2] >= 0 /\ b[3] >= 0 /\ b[4] >= 0
    /\ b[1] + b[3] <= d
    /\ b[2] + b[4] <= d

\* stl_tools::seq_int(from, length): from, from + 1, ...
seq_int(from, length) == [k \in Idx(length) |-> from + k]
\* stl_tools::reverse
stl_reverse(v) == Reverse(v)

----------------------------------------------------------------------------
(* RVineMatrix::get_order and RVineMatrix::construct_d_vine_matrix.        *)

\* get_order without the final .reverse()
get_order_unreversed(matrix) == Diagonal(ColwiseReverse(matrix))

get_order(matrix) == Reverse(Diagonal(ColwiseReverse(matrix)))

\* the cells get_order reads: the diagonal of the column-reversed matrix
get_order_acc(d) == {<<d - 1 - k, k, 1, 1>> : k \in Idx(d)}

\* for (i = 0; i < d; ++i): the diagonal loop
dvine_diag_levels(d) == 0 .. (d - 1)
\* for (i = 1; i < d; ++i) for (j = 0; j < i; ++j): the loop below the diagonal
dvine_below_pairs(d) == UNION {{<<i, j>> : j \in 0 .. (i - 1)} : i \in 1 .. (d - 1)}

\* construct_d_vine_matrix with order(i) on the diagonal
construct_d_vine_matrix_diag_i(ord) ==
    LET d == Size(ord) IN
    [c \in Cells(d) |->
        IF \E i \in dvine_diag_levels(d) : c = <<d - 1 - i, i>>
        THEN ord[c[2]]
        ELSE IF \E p \in dvine_below_pairs(d) : c = <<d - 1 - p[1], p[2]>>
        THEN ord[(d - 1 - c[1]) - c[2] - 1]
        ELSE 0]

\* construct_d_vine_matrix with order(i - j) below the diagonal
construct_d_vine_matrix_below_off(ord) ==
    LET d == Size(ord) IN
    [c \in Cells(d) |->
        IF \E i \in dvine_diag_levels(d) : c = <<d - 1 - i, i>>
        THEN ord[c[1]]
        ELSE IF \E p \in dvine_below_pairs(d) : c = <<d - 1 - p[1], p[2]>>
        THEN ord[(d - 1 - c[1]) - c[2]]
        ELSE 0]

\* The second loop writes only cells the first one leaves alone (j < i), so
\* the two loops are one assignment per cell.
construct_d_vine_matrix(ord) ==
    LET d == Size(ord) IN
    [c \in Cells(d) |->
        IF \E i \in dvine_diag_levels(d) : c = <<d - 1 - i, i>>
        THEN ord[c[1]]                                  \* order(d - 1 - i)
        ELSE IF \E p \in dvine_below_pairs(d) : c = <<d - 1 - p[1], p[2]>>
        THEN ord[(d - 1 - c[1]) - c[2] - 1]             \* order(i - j - 1)
        ELSE 0]

\* matrix cells written, then the elements of order read (as <<k, 0, 1, 1>>)
construct_d_vine_matrix_acc(d) ==
    {<<d - 1 - i, i, 1, 1>> : i \in dvine_diag_levels(d)}
    \cup {<<d - 1 - p[1], p[2], 1, 1>> : p \in dvine_below_pairs(d)}
    \cup {<<d - 1 - i, 0, 1, 1>> : i \in dvine_diag_levels(d)}
    \cup {<<p[1] - p[2] - 1, 0, 1, 1>> : p \in dvine_below_pairs(d)}

----------------------------------------------------------------------------
(* relabel_one, relabel_elements, RVineMatrix::in_natural_order.           *)

RECURSIVE relabel_scan(_, _, _, _)
relabel_scan(x, old_labels, new_labels, i) ==
    IF i >= Size(old_labels) THEN 0
    ELSE IF x = old_labels[i] THEN new_labels[i]
    ELSE relabel_scan(x, old_labels, new_labels, i + 1)

relabel_one(x, old_labels, new_labels) == relabel_scan(x, old_labels, new_labels, 0)

\* the inner loop with j < d - i - 1, j <= d - i and j < d
relabel_cells_short(d) == UNION {{<<i, j>> : j \in 0 .. (d - i - 2)} : i \in 0 .. (d - 1)}
relabel_cells_long(d) == UNION {{<<i, j>> : j \in 0 .. (d - i)} : i \in 0 .. (d - 1)}
relabel_cells_full(d) == UNION {{<<i, j>> : j \in 0 .. (d - 1)} : i \in 0 .. (d - 1)}

\* for (i = 0; i < d; ++i) for (j = 0; j < d - i; ++j)
relabel_cells(d) == UNION {{<<i, j>> : j \in 0 .. (d - i - 1)} : i \in 0 .. (d - 1)}

relabel_elements(matrix, new_labels) ==
    LET d == Rows(matrix)
        old_labels == Diagonal(ColwiseReverse(matrix))
        todo == relabel_cells(d)
    IN  [c \in Cells(d) |->
            IF c \in todo
            THEN relabel_one(Coeff(matrix, c[1], c[2]), old_labels, new_labels)
            ELSE 0]

\* cells of matrix read and of new_matrix written, the diagonal read for
\* old_labels, and the label positions relabel_one may index
relabel_elements_acc(d) ==
    {<<c[1], c[2], 1, 1>> : c \in relabel_cells(d)}
    \cup {<<d - 1 - k, k, 1, 1>> : k \in Idx(d)}
    \cup {<<k, 0, 1, 1>> : k \in Idx(d)}

\* in_natural_order without stl_tools::reverse(ivec)
in_natural_order_ascending(matrix, d) == relabel_elements(matrix, seq_int(1, d))

in_natural_order(matrix, d) ==
    LET ivec == stl_reverse(seq_int(1, d))
    IN  relabel_elements(matrix, ivec)

in_natural_order_acc(d) == relabel_elements_acc(d)

----------------------------------------------------------------------------
(* RVineMatrix::get_max_matrix.                                            *)

\* for (int i = 0; i < d_ - 1; ++i)
max_rows(d) == 0 .. (d - 2)
\* the inner loop with j < d_ - i - 2
max_cols_short(d, i) == 0 .. (d - i - 3)

\* for (int j = 0; j < d_ - i - 1; ++j)
max_cols(d, i) == 0 .. (d - i - 2)

\* one pass of the outer loop: row i + 1 from rows i and i + 1
max_step(m, d, i) ==
    [c \in DOMAIN m |->
        IF c[1] = i + 1 /\ c[2] \in max_cols(d, i)
        THEN MaxCoeff(m, i, c[2], 2, 1)
        ELSE m[c]]

RECURSIVE max_loop(_, _, _)
max_loop(m, d, i) ==
    IF i \in max_rows(d) THEN max_loop(max_step(m, d, i), d, i + 1) ELSE m

get_max_matrix(matrix, d) == max_loop(in_natural_order(matrix, d), d, 0)

\* the block read and the cell written in every pass of the inner loop
get_max_matrix_acc(d) ==
    in_natural_order_acc(d)
    \cup UNION {{<<i, j, 2, 1>> : j \in max_cols(d, i)} : i \in max_rows(d)}
    \cup UNION {{<<i + 1, j, 1, 1>> : j \in max_cols(d, i)} : i \in max_rows(d)}

----------------------------------------------------------------------------
(* RVineMatrix::get_needed_hfunc1 and RVineMatrix::get_needed_hfunc2.      *)

\* for (int i = 1; i < d_ - 1; ++i), shared by both masks
hfunc_levels(d) == 1 .. (d - 2)

\* Pass i writes needed_hfunc1.block(0, i, j, 1) with j = d_ - i: row r of
\* (isnt_mat_j && is_max_j).rowwise().any() over the block (0, 0, j, i).
hfunc1_any(no_matrix, max_matrix, r, i, j) ==
    \E c \in Idx(i) :
        /\ Coeff(no_matrix, r, c) # j
        /\ Coeff(max_matrix, r, c) = j

get_needed_hfunc1(matrix, d) ==
    LET no_matrix == in_natural_order(matrix, d)
        max_matrix == get_max_matrix(matrix, d)
        levels == hfunc_levels(d)
    IN  [c \in Cells(d) |->
            IF c[2] \in levels /\ c[1] \in Idx(d - c[2])
            THEN hfunc1_any(no_matrix, max_matrix, c[1], c[2], d - c[2])
            ELSE FALSE]

get_needed_hfunc1_acc(d) ==
    get_max_matrix_acc(d)
    \cup {<<0, 0, d - i, i>> : i \in hfunc_levels(d)}
    \cup {<<0, i, d - i, 1>> : i \in hfunc_levels(d)}

\* the first column filled in one row less
hfunc2_first_column_short(d) == BlockCells(0, 0, d - 2, 1)

\* needed_hfunc2.block(0, 0, d_ - 1, 1) = true
hfunc2_first_column(d) == BlockCells(0, 0, d - 1, 1)

\* (is_mat_j && is_max_j).any() over the block (j - 1, 0, 1, i)
hfunc2_any(no_matrix, max_matrix, i, j) ==
    \E c \in Idx(i) :
        /\ Coeff(no_matrix, j - 1, c) = j
        /\ Coeff(max_matrix, j - 1, c) = j

\* Pass i fills column i with true in rows 0 .. d_ - i - 1 and then overwrites
\* the cell (j - 1, i); passes write different columns, none column 0.
get_needed_hfunc2(matrix, d) ==
    LET no_matrix == in_natural_order(matrix, d)
        max_matrix == get_max_matrix(matrix, d)
        levels == hfunc_levels(d)
        first_column == hfunc2_first_column(d)
    IN  [c \in Cells(d) |->
            IF c[2] \in levels /\ c[1] = d - c[2] - 1
            THEN hfunc2_any(no_matrix, max_matrix, c[2], d - c[2])
            ELSE IF c[2] \in levels /\ c \in BlockCells(0, c[2], d - c[2], 1)
            THEN TRUE
            ELSE c \in first_column]

get_needed_hfunc2_acc(d) ==
    get_max_matrix_acc(d)
    \cup {<<0, 0, d - 1, 1>>}
    \cup {<<0, i, d - i, 1>> : i \in hfunc_levels(d)}
    \cup {<<d - i - 1, 0, 1, i>> : i \in hfunc_levels(d)}
    \cup {<<d - i - 1, i, 1, 1>> : i \in hfunc_levels(d)}

----------------------------------------------------------------------------
(* The inputs a caller builds.                                             *)

\* the permutations of 1..d, as VecXi
Orders(d) ==
    {o \in [Idx(d) -> 1 .. d] : \A a, b \in Idx(d) : o[a] = o[b] => a = b}

\* the cells with row + col <= d - 1 and the others
Triangle(d) == {c \in Cells(d) : c[1] + c[2] <= d - 1}
Upper(d) == Cells(d) \ Triangle(d)

\* What a caller may write into a cell: 0, a label of the vine, or a label the
\* vine lacks.  Orders(d) holds every permutation and relabelling compares
\* labels only for equality, so the one label 1 stands for each of 1..d.
Values(d) == {0, 1, d + 1}

\* at most MaxEdits triangular cells overwritten
TrianglePatches(d) ==
    UNION {[S -> Values(d)] :
              S \in {T \in SUBSET Triangle(d) : Cardinality(T) <= MaxEdits}}

\* the whole upper-right region overwritten with one value
UpperPatches(d) == {[c \in Upper(d) |-> v] : v \in Values(d)}

Patched(m, p) == [c \in DOMAIN m |-> IF c \in DOMAIN p THEN p[c] ELSE m[c]]

----------------------------------------------------------------------------
(* The state machine.                                                      *)

NoCall == [op |-> "none", val |-> <<>>, acc |-> {}]
NoFirst == [called |-> FALSE, val |-> <<>>]

\* the order of the d = 4 scenario of the tests: 1, 2, 3, 4
ScenarioOrder == seq_int(1, 4)

\* A caller holding an order and the cells it is going to overwrite; no
\* object exists yet.  tracked: the accessors whose first result is kept.
InitWith(inputs, tracked) ==
    /\ \E in \in inputs :
        /\ order = in[1]
        /\ patch = in[2]
    /\ input = <<>>
    /\ d_ = 0
    /\ matrix_ = <<>>
    /\ pc = "start"
    /\ ret = NoCall
    /\ first = [a \in tracked |-> NoFirst]

AllOrders == UNION {Orders(d) : d \in 1 .. MaxD}

\* an order with the cells overwritten afterwards
TriangleInputs(orders) ==
    UNION {{<<o, p>> : p \in TrianglePatches(Size(o))} : o \in orders}
UpperInputs(orders) ==
    UNION {{<<o, p>> : p \in UpperPatches(Size(o))} : o \in orders}

Init == InitWith(TriangleInputs(AllOrders \cup {ScenarioOrder}), {})
InitCalls == InitWith(UpperInputs(AllOrders), Accessors)
InitPair == InitWith(UpperInputs(AllOrders), {})

\* first, after a call of accessor op returning val
Noted(op, val) ==
    IF op \in DOMAIN first /\ ~first[op].called
    THEN [first EXCEPT ![op] = [called |-> TRUE, val |-> val]]
    ELSE first

\* a call of a const-like accessor: it returns val and assigns no member
Returns(op, val, acc) ==
    /\ pc = "live"
    /\ ret' = [op |-> op, val |-> val, acc |-> acc]
    /\ first' = Noted(op, val)
    /\ UNCHANGED <<order, patch, input, d_, matrix_, pc>>

\* MatXi m = RVineMatrix::construct_d_vine_matrix(order)
ConstructDVine ==
    /\ pc = "start"
    /\ pc' = "built"
    /\ ret' = [op  |-> "construct_d_vine_matrix",
               val |-> construct_d_vine_matrix(order),
               acc |-> construct_d_vine_matrix_acc(Size(order))]
    /\ UNCHANGED <<order, patch, input, d_, matrix_, first>>

\* RVineMatrix(matrix), matrix being m with the caller's cells overwritten
RVineMatrix ==
    /\ pc = "built"
    /\ LET matrix == Patched(ret.val, patch) IN
        /\ input' = matrix
        /\ d_' = Rows(matrix)
        /\ matrix_' = matrix
    /\ pc' = "live"
    /\ UNCHANGED <<order, patch, ret, first>>

GetMatrix == Returns("get_matrix", matrix_, {})
GetOrder == Returns("get_order", get_order(matrix_), get_order_acc(d_))
InNaturalOrder ==
    Returns("in_natural_order", in_natural_order(matrix_, d_), in_natural_order_acc(d_))
\* get_max_matrix taking the maxima in matrix_ itself
GetMaxMatrixInPlace ==
    /\ pc = "live"
    /\ matrix_' = get_max_matrix(matrix_, d_)
    /\ ret' = [op |-> "get_max_matrix", val |-> matrix_', acc |-> get_max_matrix_acc(d_)]
    /\ first' = Noted("get_max_matrix", matrix_')
    /\ UNCHANGED <<order, patch, input, d_, pc>>

GetMaxMatrix ==
    Returns("get_max_matrix", get_max_matrix(matrix_, d_), get_max_matrix_acc(d_))
GetNeededHfunc1 ==
    Returns("get_needed_hfunc1", get_needed_hfunc1(matrix_, d_), get_needed_hfunc1_acc(d_))
GetNeededHfunc2 ==
    Returns("get_needed_hfunc2", get_needed_hfunc2(matrix_, d_), get_needed_hfunc2_acc(d_))

Next ==
    \/ ConstructDVine
    \/ RVineMatrix
    \/ GetMatrix
    \/ GetOrder
    \/ InNaturalOrder
    \/ GetMaxMatrix
    \/ GetNeededHfunc1
    \/ GetNeededHfunc2

Spec == Init /\ [][Next]_vars
SpecCalls == InitCalls /\ [][Next]_vars
SpecPair == InitPair /\ [][Next]_vars

----------------------------------------------------------------------------
(* Properties.                                                             *)

Unpatched == DOMAIN patch = {}
Called(op) == pc = "live" /\ ret.op = op

\* the diagonal M(d - 1 - i, i), i = 0 .. d - 1, has pairwise distinct entries
DistinctDiagonal(m, d) ==
    \A a, b \in Idx(d) : m[<<d - 1 - a, a>>] = m[<<d - 1 - b, b>>] => a = b
\* the diagonal reads d, d - 1, ..., 1 from the bottom row to the top row
NaturalDiagonal(m, d) == \A i \in Idx(d) : m[<<d - 1 - i, i>>] = d - i
Max2(a, b) == IF a >= b THEN a ELSE b

\* C1: get_order() on RVineMatrix(construct_d_vine_matrix(order)) returns a
\* vector of length d equal to order element by element, for every
\* permutation order of 1..d.
C1_RoundTrip ==
    (Called("get_order") /\ Unpatched) =>
        /\ DOMAIN ret.val = Idx(Size(order))
        /\ \A k \in Idx(Size(order)) : ret.val[k] = order[k]

C1_Witness ==
    /\ Called("get_order") /\ Unpatched
    /\ Size(order) >= 3
    /\ order[0] # 1
    /\ ret.val = order

\* C2: when the diagonal entries of the stored matrix are pairwise distinct,
\* the result N of in_natural_order() has N(d-1-i, i) = d - i for every i.
C2_NaturalDiagonal ==
    (Called("in_natural_order") /\ DistinctDiagonal(matrix_, d_)) =>
        \A i \in Idx(d_) : ret.val[<<d_ - 1 - i, i>>] = d_ - i

C2_Witness ==
    /\ Called("in_natural_order")
    /\ d_ >= 3
    /\ DistinctDiagonal(matrix_, d_)
    /\ ~NaturalDiagonal(matrix_, d_)
    /\ \E c \in DOMAIN patch : c[1] + c[2] = d_ - 1
    /\ NaturalDiagonal(ret.val, d_)

\* C3: in_natural_order is idempotent: the result N of in_natural_order(),
\* stored in a new RVineMatrix, is returned cell by cell by that object's
\* in_natural_order(); and a matrix in natural order (diagonal d, ..., 1,
\* triangular entries among 1..d) is returned unchanged on its triangle.
C3_Idempotent ==
    Called("in_natural_order") =>
        /\ in_natural_order(ret.val, Rows(ret.val)) = ret.val
        /\ ( /\ NaturalDiagonal(matrix_, d_)
             /\ \A c \in Triangle(d_) : matrix_[c] \in 1 .. d_ )
           => \A c \in Triangle(d_) : ret.val[c] = matrix_[c]

C3_Witness ==
    /\ Called("in_natural_order")
    /\ d_ >= 3
    /\ ~DistinctDiagonal(matrix_, d_)
    /\ \E c \in Triangle(d_) : ret.val[c] = 0
    /\ ret.val # matrix_
    /\ in_natural_order(ret.val, d_) = ret.val

\* C4: with N = in_natural_order() and X = get_max_matrix(): X(0, j) = N(0, j)
\* for all j; for every triangular cell (i, j) with i >= 1,
\* X(i, j) = max(X(i-1, j), N(i, j)), hence X(i, j) >= X(i-1, j).
C4_RunningMaximum ==
    Called("get_max_matrix") =>
        LET N == in_natural_order(matrix_, d_)
            X == ret.val
        IN  /\ \A j \in Idx(d_) : X[<<0, j>>] = N[<<0, j>>]
            /\ \A c \in Triangle(d_) :
                   c[1] >= 1 =>
                       /\ X[c] = Max2(X[<<c[1] - 1, c[2]>>], N[c])
                       /\ X[c] >= X[<<c[1] - 1, c[2]>>]

C4_Witness ==
    /\ Called("get_max_matrix")
    /\ d_ >= 3
    /\ \E c \in Triangle(d_) :
           /\ c[1] + c[2] = d_ - 1
           /\ c[1] >= 1
           /\ ret.val[c] > in_natural_order(matrix_, d_)[c]

\* C5 as claimed: element k of get_order() is M(d-1-k, k), the first element
\* taken from the bottom row, column 0.
C5_BottomToTop ==
    Called("get_order") =>
        \A k \in Idx(d_) : ret.val[k] = matrix_[<<d_ - 1 - k, k>>]

\* C5 amended: element k of get_order() is M(k, d-1-k), the first element
\* taken from the top row, last column; for a matrix in natural order
\* get_order() returns (1, 2, ..., d).
C5_TopToBottom ==
    Called("get_order") =>
        /\ DOMAIN ret.val = Idx(d_)
        /\ \A k \in Idx(d_) : ret.val[k] = matrix_[<<k, d_ - 1 - k>>]
        /\ NaturalDiagonal(matrix_, d_) => \A k \in Idx(d_) : ret.val[k] = k + 1

C5_Witness ==
    /\ Called("get_order")
    /\ d_ >= 3
    /\ NaturalDiagonal(matrix_, d_)
    /\ ret.val[0] = 1
    /\ ret.val[0] # matrix_[<<d_ - 1, 0>>]

\* C6: the stored matrix and dimension never change after construction:
\* after any sequence of accessor calls get_matrix() returns the constructor's
\* argument in all d*d cells, and every accessor returns what it returned on
\* its first call.
C6_Immutable ==
    pc = "live" =>
        /\ matrix_ = input
        /\ d_ = Rows(input)
        /\ ret.op = "get_matrix" => ret.val = input
        /\ \A a \in DOMAIN first :
               (first[a].called /\ ret.op = a) => ret.val = first[a].val

C6_Witness ==
    /\ pc = "live"
    /\ d_ >= 3
    /\ \A a \in Accessors : a \in DOMAIN first /\ first[a].called
    /\ ret.op = "get_matrix"
    /\ \E c \in Upper(d_) : ret.val[c] # 0
    /\ ret.val = input

\* C7: get_needed_hfunc2() has entry (r, 0) = true for every row r in
\* 0..d-2, whatever the entries of the matrix.
C7_FirstColumn ==
    Called("get_needed_hfunc2") =>
        \A r \in 0 .. (d_ - 2) : ret.val[<<r, 0>>] = TRUE

C7_Witness ==
    /\ Called("get_needed_hfunc2")
    /\ d_ >= 3
    /\ ~Unpatched
    /\ \E i \in hfunc_levels(d_) : ret.val[<<d_ - i - 1, i>>] = FALSE
    /\ \A r \in 0 .. (d_ - 2) : ret.val[<<r, 0>>] = TRUE

\* C8: get_order, in_natural_order, get_max_matrix, get_needed_hfunc1 and
\* get_needed_hfunc2 make no out-of-range access, for d = 1 and d = 2 as for
\* every d: every block used has rows >= 0, cols >= 0, startRow + rows <= d
\* and startCol + cols <= d (a cell being the block of one row and column).
C8_InRange ==
    (pc = "live" /\ ret.op \in Accessors) =>
        \A b \in ret.acc : InRange(b, d_)

C8_Witness ==
    /\ Called("get_needed_hfunc2")
    /\ d_ = 1
    /\ <<0, 0, 0, 1>> \in ret.acc
    /\ ret.val = Constant(1, FALSE)

\* C9 as claimed: for order = (1,2,3,4) the D-vine matrix has the diagonal
\* (4,3,2,1) from the bottom row up, entry 1 at row 3, column 0, and in row 2
\* entry 2 at column 0 and 2 at column 1.
C9_Scenario ==
    (ret.op = "construct_d_vine_matrix" /\ order = ScenarioOrder) =>
        /\ \A i \in Idx(4) : ret.val[<<3 - i, i>>] = 4 - i
        /\ ret.val[<<3, 0>>] = 1
        /\ ret.val[<<2, 0>>] = 2
        /\ ret.val[<<2, 1>>] = 2

\* C9 amended: for order = (1,2,3,4) the D-vine matrix has the diagonal
\* (4,3,2,1) from the bottom row up, entry 4 at row 3, column 0, and in row 2
\* entry 1 at column 0 and the diagonal entry 3 at column 1.
C9_ScenarioCells ==
    (ret.op = "construct_d_vine_matrix" /\ order = ScenarioOrder) =>
        /\ \A i \in Idx(4) : ret.val[<<3 - i, i>>] = 4 - i
        /\ ret.val[<<3, 0>>] = 4
        /\ ret.val[<<2, 0>>] = 1
        /\ ret.val[<<2, 1>>] = 3

C9_Witness ==
    /\ pc = "built"
    /\ ret.op = "construct_d_vine_matrix"
    /\ order = ScenarioOrder
    /\ Rows(ret.val) = 4

\* the matrices that agree with m on the triangle and hold 0 or the label 1
\* in the cells with row + col >= d
SameTriangle(m, d) == {Patched(m, p) : p \in [Upper(d) -> {0, 1}]}

Result(op, m, d) ==
    CASE op = "get_order" -> get_order(m)
      [] op = "in_natural_order" -> in_natural_order(m, d)
      [] op = "get_max_matrix" -> get_max_matrix(m, d)
      [] op = "get_needed_hfunc1" -> get_needed_hfunc1(m, d)
      [] op = "get_needed_hfunc2" -> get_needed_hfunc2(m, d)

\* C10: no derivation reads a cell outside the triangle: matrices that agree
\* on every cell with r + c <= d-1 give identical get_order, in_natural_order,
\* get_max_matrix, get_needed_hfunc1 and get_needed_hfunc2, and every returned
\* matrix or mask is 0 / false on the cells with r + c >= d.
C10_TriangleOnly ==
    (pc = "live" /\ ret.op \in Accessors \ {"get_matrix"}) =>
        /\ \A B \in SameTriangle(matrix_, d_) : Result(ret.op, B, d_) = ret.val
        /\ ret.op \in {"in_natural_order", "get_max_matrix"} =>
               \A c \in Upper(d_) : ret.val[c] = 0
        /\ ret.op \in {"get_needed_hfunc1", "get_needed_hfunc2"} =>
               \A c \in Upper(d_) : ret.val[c] = FALSE

C10_Witness ==
    /\ Called("get_max_matrix")
    /\ d_ >= 3
    /\ \A c \in Upper(d_) : matrix_[c] = 1
    /\ \A c \in Upper(d_) : ret.val[c] = 0
    /\ \E c \in Triangle(d_) : ret.val[c] # matrix_[c]

====
